---- MODULE Spec2Model ----
(***************************************************************************)
(* Reward and feedback engine of marble/feedback/feedback_provider.py.     *)
(*                                                                         *)
(* The state is one FeedbackProvider together with the evaluator metrics   *)
(* it reads and the roster it was built with.  Python floats are modelled  *)
(* as exact rationals [n, d] in lowest terms, so that every statement     *)
(* about a reward is a statement in exact arithmetic.                      *)
(***************************************************************************)
EXTENDS Integers, Sequences, FiniteSets, TLC

VARIABLES
    metrics,          \* evaluator.metrics: one optional entry per key
    agent_profiles,   \* key set of the roster dict given to __init__
    agent_rewards,    \* self.agent_rewards: dict agent id -> reward
    rewards_out,      \* what the last calculate_agent_rewards call returned
    ranking_out,      \* what the last sorted_agent_contribution call returned
    ratio_out,        \* what the last _calculate_agent_contribution_ratio call returned
    raised,           \* exception raised by the last call, "none" if it returned
    n_calls,          \* number of calls made on the provider so far
    is_feedback,      \* self.is_feedback
    individual_feedbacks,   \* self.individual_feedbacks: dict agent id -> text
    team_feedback,    \* self.team_feedback
    explanation_out,  \* what the last generate_reward_explanation call returned
    packages,         \* the values get_full_feedback_package returned, in order
    threads,          \* concurrent invocations of calculate_agent_rewards
    output_file,      \* the output file of replace_task_in_json_template
    n_runs,           \* number of replace_task_in_json_template runs so far
    last_run,         \* what the last run started from and was given
    model_calls,      \* model_prompting calls made by the provider's last operation
    game,             \* the fields of the GameEngine and of its puzzles
    game_ret,         \* the operation of the GameEngine called last and its result
    route,            \* how far the team has played the route to the final chamber
    prompt_out,       \* the last prompt built by feedback_support and its arguments
    completion        \* the last request model_prompting sent and its outcome

\* The feedback state of the provider and the packages handed out.
feedbackVars == <<is_feedback, individual_feedbacks, team_feedback,
                  explanation_out, packages, model_calls>>

\* The state of the JSONL generator.
jsonlVars == <<output_file, n_runs, last_run>>

\* The state of the treasure hunt game.
gameVars == <<game, game_ret, route>>

\* The state of the modules next to the provider and the generator.
restVars == <<gameVars, prompt_out, completion>>

vars == <<metrics, agent_profiles, agent_rewards, rewards_out, ranking_out,
          ratio_out, raised, n_calls, feedbackVars, threads, jsonlVars, restVars>>

(***************************************************************************)
(* Bounds and input domains.                                               *)
(***************************************************************************)
MaxScoreLen == 2

\* Calls made on one provider in one run.
MaxCalls == 2

\* Runs of replace_task_in_json_template and lines of an input file.
MaxRuns == 3
MaxInputLen == 2

Agents == {"A", "B"}

\* Raw scores: the sentinel -1, a score of the 1..5 scale, and two values
\* far outside the scale.
ScoreVals == {-3, -1, 4, 30}

\* The raw scores of the longer score histories.
HistoryVals == {-1, 4, 30}

\* Milestone counts of one agent, and values of total_milestones.
CountVals == {0, 1, 3}
TotalVals == {-1, 0, 1, 4}

(***************************************************************************)
(* Exact rationals standing for Python floats.                             *)
(***************************************************************************)
Abs(x) == IF x < 0 THEN -x ELSE x

RECURSIVE GCD(_, _)
GCD(a, b) == IF b = 0 THEN a ELSE GCD(b, a % b)

\* The rational n/d (d # 0) in lowest terms with a positive denominator.
Q(n, d) ==
    LET g == GCD(Abs(n), Abs(d))
        s == IF d < 0 THEN -1 ELSE 1
    IN  [n |-> (s * n) \div g, d |-> (s * d) \div g]

\* float(x) of an integer x.
Float(x) == Q(x, 1)

\* The result of a division by zero: Python raises ZeroDivisionError.
DivError == [n |-> 0, d |-> 0]

IsError(x) == x.d = 0

RAdd(x, y) == IF IsError(x) \/ IsError(y) THEN DivError
              ELSE Q(x.n * y.d + y.n * x.d, x.d * y.d)
RMul(x, y) == IF IsError(x) \/ IsError(y) THEN DivError
              ELSE Q(x.n * y.n, x.d * y.d)
RLt(x, y) == x.n * y.d < y.n * x.d
RLe(x, y) == x.n * y.d <= y.n * x.d

\* agent_milestones / total_milestones on two Python ints.
TrueDiv(a, b) == IF b = 0 THEN DivError ELSE Q(a, b)

\* Python's min(a, b) and max(a, b): the first argument wins a tie.
PyMin(a, b) == IF RLt(b, a) THEN b ELSE a
PyMax(a, b) == IF RLt(a, b) THEN b ELSE a

(***************************************************************************)
(* Module constants.                                                       *)
(***************************************************************************)
\* Mutant: the planning and communication weights exchanged.
SwappedWeights ==
    [planning |-> Q(3, 10), communication |-> Q(4, 10), contribution |-> Q(3, 10)]

REWARD_WEIGHTS ==
    [planning |-> Q(4, 10), communication |-> Q(3, 10), contribution |-> Q(3, 10)]

\* score_normalize_factor = 1.0 / 5.0
score_normalize_factor == Q(1, 5)

\* Mutant: an empty score list counts as a score of zero.
DefaultScoreZero == Q(0, 1)

\* The default raw score of an empty score list.
DefaultScore == Q(3, 1)

(***************************************************************************)
(* The metrics store.  Each key is an optional entry [has, v]; v is a     *)
(* fixed filler when the key is absent.                                    *)
(***************************************************************************)
Some(v) == [has |-> TRUE, v |-> v]
NoSeq == [has |-> FALSE, v |-> <<>>]
NoInt == [has |-> FALSE, v |-> 0]

\* dict.get(key, default) on evaluator.metrics
MetricsGet(m, key, default) == IF m[key].has THEN m[key].v ELSE default

\* Mutant: the store after dict.setdefault(key, default).
DictAfterSetdefault(m, key, default) ==
    IF m[key].has THEN m ELSE [m EXCEPT ![key] = Some(default)]

\* The store after dict.get(key, default): get inserts nothing.
DictAfterGet(m, key, default) == m

\* The store after the reads of _get_latest_scores and of agent_kpis that
\* every operation of the provider starts with.
MetricsAfterReads(m) ==
    DictAfterGet(DictAfterGet(DictAfterGet(m, "planning_score", <<>>),
                              "communication_score", <<>>),
                 "agent_kpis", <<>>)

\* dict.get(agent_id, default) on agent_kpis, a sequence of entries in
\* insertion order with distinct ids.
KpiGet(kpis, agent_id, default) ==
    IF \E i \in 1..Len(kpis) : kpis[i].id = agent_id
    THEN (CHOOSE e \in {kpis[i] : i \in 1..Len(kpis)} : e.id = agent_id).n
    ELSE default

KpiKeys(kpis) == {kpis[i].id : i \in 1..Len(kpis)}

(***************************************************************************)
(* Python dicts and lists.                                                 *)
(***************************************************************************)
EmptyDict == [x \in {} |-> Float(0)]

\* d[k] = v
DictSet(d, k, v) == [x \in (DOMAIN d) \cup {k} |-> IF x = k THEN v ELSE d[x]]

Reverse(s) == [i \in 1..Len(s) |-> s[Len(s) + 1 - i]]

\* One step of a stable ascending sort on (agent_id, ratio) pairs: x goes
\* behind every element of the sorted list whose key is not greater.
InsertByRatio(sorted, x) ==
    LET keep == {i \in 1..Len(sorted) : RLe(sorted[i][2], x[2])}
        k == Cardinality(keep)
    IN  SubSeq(sorted, 1, k) \o <<x>> \o SubSeq(sorted, k + 1, Len(sorted))

RECURSIVE StableSortByRatio(_)
StableSortByRatio(items) ==
    IF items = <<>> THEN <<>>
    ELSE InsertByRatio(StableSortByRatio(SubSeq(items, 1, Len(items) - 1)),
                       items[Len(items)])

\* Mutant: an ascending sort whose result is reversed.
SortAscendingThenReverse(items) == Reverse(StableSortByRatio(items))

\* sorted(items, key=lambda x: x[1], reverse=True): the list is reversed,
\* sorted stably in ascending order, and reversed again, which keeps the
\* input order of equal keys.
SortedByRatioReverse(items) == Reverse(StableSortByRatio(Reverse(items)))

(***************************************************************************)
(* FeedbackProvider: the pure helpers.                                     *)
(***************************************************************************)
\* Mutant: the division without the guard on total_milestones.
UnguardedRatio(m, agent_id) ==
    LET agent_milestones == KpiGet(MetricsGet(m, "agent_kpis", <<>>), agent_id, 0)
    IN  TrueDiv(agent_milestones, MetricsGet(m, "total_milestones", agent_milestones))

\* Mutant: the guard lets a total of zero through.
RatioGuardNonNegative(m, agent_id) ==
    LET agent_milestones == KpiGet(MetricsGet(m, "agent_kpis", <<>>), agent_id, 0)
        total_milestones == MetricsGet(m, "total_milestones", agent_milestones)
    IN  IF total_milestones >= 0
        THEN TrueDiv(agent_milestones, total_milestones)
        ELSE Float(0)

\* _calculate_agent_contribution_ratio
calculate_agent_contribution_ratio(m, agent_id) ==
    LET agent_kpis == MetricsGet(m, "agent_kpis", <<>>)
        agent_milestones == KpiGet(agent_kpis, agent_id, 0)
        total_milestones == MetricsGet(m, "total_milestones", agent_milestones)
    IN  IF total_milestones > 0
        THEN TrueDiv(agent_milestones, total_milestones)
        ELSE Float(0)

\* Mutant: the sentinel is not converted.
LatestScoreRaw(scores) ==
    IF scores # <<>> THEN Float(scores[Len(scores)]) ELSE DefaultScore

\* scores[-1] if scores else 3.0, then the sentinel -1 becomes 0.0
LatestScore(scores) ==
    LET latest == IF scores # <<>> THEN Float(scores[Len(scores)]) ELSE DefaultScore
    IN  IF latest = Float(-1) THEN Float(0) ELSE latest

\* Mutant: a sentinel anywhere in a list zeroes its score.
get_latest_scores_any_sentinel(m) ==
    LET Score(scores) ==
            IF \E i \in 1..Len(scores) : scores[i] = -1 THEN Float(0)
            ELSE IF scores # <<>> THEN Float(scores[Len(scores)]) ELSE DefaultScore
    IN  <<Score(MetricsGet(m, "planning_score", <<>>)),
          Score(MetricsGet(m, "communication_score", <<>>))>>

\* _get_latest_scores: <<latest_planning, latest_communication>>
get_latest_scores(m) ==
    <<LatestScore(MetricsGet(m, "planning_score", <<>>)),
      LatestScore(MetricsGet(m, "communication_score", <<>>))>>

\* The contribution ratio calculate_agent_rewards uses for one roster agent.
RosterContribution(m, agent_id) ==
    IF agent_id \in KpiKeys(MetricsGet(m, "agent_kpis", <<>>))
    THEN calculate_agent_contribution_ratio(m, agent_id)
    ELSE Float(0)

\* Mutant: the reward is clipped from below only.
ClampLowerOnly(agent_reward) == PyMax(Float(0), agent_reward)

\* max(0.0, min(1.0, agent_reward))
Clamp(agent_reward) == PyMax(Float(0), PyMin(Float(1), agent_reward))

\* Mutant: the contribution term is subtracted.
WeightedRewardPenalising(latest, contribution_ratio) ==
    LET normalized_planning == RMul(latest[1], score_normalize_factor)
        normalized_communication == RMul(latest[2], score_normalize_factor)
        agent_reward ==
            RAdd(RAdd(RMul(REWARD_WEIGHTS.planning, normalized_planning),
                      RMul(REWARD_WEIGHTS.communication, normalized_communication)),
                 RMul(RMul(Float(-1), REWARD_WEIGHTS.contribution),
                      contribution_ratio))
    IN  IF IsError(agent_reward) THEN DivError ELSE Clamp(agent_reward)

\* Lines 122-133: the reward from the latest scores read at the start of the
\* call and the contribution ratio of one agent.
WeightedReward(latest, contribution_ratio) ==
    LET normalized_planning == RMul(latest[1], score_normalize_factor)
        normalized_communication == RMul(latest[2], score_normalize_factor)
        agent_reward ==
            RAdd(RAdd(RMul(REWARD_WEIGHTS.planning, normalized_planning),
                      RMul(REWARD_WEIGHTS.communication, normalized_communication)),
                 RMul(REWARD_WEIGHTS.contribution, contribution_ratio))
    IN  IF IsError(agent_reward) THEN DivError ELSE Clamp(agent_reward)

\* The body of the loop of calculate_agent_rewards for one agent.
AgentReward(m, agent_id) ==
    WeightedReward(get_latest_scores(m), RosterContribution(m, agent_id))

\* Mutant: a reward is added to the one already stored for the agent.
StoreRewardAccumulate(rewards, agent_id, agent_reward) ==
    DictSet(rewards, agent_id,
            IF agent_id \in DOMAIN rewards THEN RAdd(rewards[agent_id], agent_reward)
            ELSE agent_reward)

\* self.agent_rewards[agent_id] = agent_reward
StoreReward(rewards, agent_id, agent_reward) == DictSet(rewards, agent_id, agent_reward)

\* Mutant: the loop visits the keys of agent_kpis.
LoopBasisKpis(m, profiles) == KpiKeys(MetricsGet(m, "agent_kpis", <<>>))

\* The agents the loop of calculate_agent_rewards visits: the roster.
LoopBasis(m, profiles) == profiles

\* for agent_id in self.agent_profiles: ... ; todo holds the agents still to visit.
RECURSIVE RewardLoop(_, _, _)
RewardLoop(m, todo, rewards) ==
    IF todo = {} THEN rewards
    ELSE LET agent_id == CHOOSE a \in todo : TRUE
         IN  RewardLoop(m, todo \ {agent_id},
                        StoreReward(rewards, agent_id, AgentReward(m, agent_id)))

\* Mutant: the comprehension keeps the agents of the roster only.
AgentContributionRoster(m) ==
    LET agent_kpis == SelectSeq(MetricsGet(m, "agent_kpis", <<>>),
                                LAMBDA e : e.id \in agent_profiles)
    IN  [i \in 1..Len(agent_kpis) |->
            <<agent_kpis[i].id, calculate_agent_contribution_ratio(m, agent_kpis[i].id)>>]

\* The dict comprehension of sorted_agent_contribution, in agent_kpis order.
AgentContribution(m) ==
    LET agent_kpis == MetricsGet(m, "agent_kpis", <<>>)
    IN  [i \in 1..Len(agent_kpis) |->
            <<agent_kpis[i].id, calculate_agent_contribution_ratio(m, agent_kpis[i].id)>>]

(***************************************************************************)
(* FeedbackProvider: the operations.                                       *)
(***************************************************************************)
NotCalled(v) == [called |-> FALSE, val |-> v]
Returned(v) == [called |-> TRUE, val |-> v]

calculate_agent_rewards ==
    LET basis == LoopBasis(metrics, agent_profiles)
        failed == \E a \in basis : IsError(AgentReward(metrics, a))
        result == RewardLoop(metrics, basis, agent_rewards)
    IN  /\ n_calls < MaxCalls
        /\ n_calls' = n_calls + 1
        /\ raised' = IF failed THEN "ZeroDivisionError" ELSE "none"
        /\ agent_rewards' = IF failed THEN agent_rewards ELSE result
        /\ rewards_out' = IF failed THEN rewards_out ELSE Returned(result)
        /\ metrics' = MetricsAfterReads(metrics)
        /\ UNCHANGED <<agent_profiles, ranking_out, ratio_out>>
        /\ UNCHANGED <<feedbackVars, threads, jsonlVars, restVars>>

sorted_agent_contribution ==
    LET agent_contribution == AgentContribution(metrics)
        failed == \E i \in 1..Len(agent_contribution) : IsError(agent_contribution[i][2])
    IN  /\ n_calls < MaxCalls
        /\ n_calls' = n_calls + 1
        /\ raised' = IF failed THEN "ZeroDivisionError" ELSE "none"
        /\ ranking_out' = IF failed THEN ranking_out
                          ELSE Returned(SortedByRatioReverse(agent_contribution))
        /\ metrics' = DictAfterGet(metrics, "agent_kpis", <<>>)
        /\ UNCHANGED <<agent_profiles, agent_rewards, rewards_out, ratio_out>>
        /\ UNCHANGED <<feedbackVars, threads, jsonlVars, restVars>>

\* A call of _calculate_agent_contribution_ratio(agent_id) on the provider.
contribution_ratio_call(agent_id) ==
    LET ratio == calculate_agent_contribution_ratio(metrics, agent_id)
    IN  /\ n_calls < MaxCalls
        /\ n_calls' = n_calls + 1
        /\ raised' = IF IsError(ratio) THEN "ZeroDivisionError" ELSE "none"
        /\ ratio_out' = IF IsError(ratio) THEN ratio_out
                        ELSE [called |-> TRUE, agent_id |-> agent_id, val |-> ratio]
        /\ UNCHANGED <<metrics, agent_profiles, agent_rewards, rewards_out, ranking_out>>
        /\ UNCHANGED <<feedbackVars, threads, jsonlVars, restVars>>

(***************************************************************************)
(* FeedbackProvider: the generated texts and the feedback package.         *)
(***************************************************************************)
\* The fields a prompt template is filled with.  A text is modelled by the
\* prompt that produced it, so that two texts are equal exactly when they
\* were generated from the same figures.
NoPrompt(kind) ==
    [kind |-> kind, agent_id |-> "", planning_score |-> Float(0),
     communication_score |-> Float(0), contribution_ratio |-> Float(0),
     agent_reward |-> Float(0), agent_milestones |-> 0, total_milestones |-> 0,
     sorted_agent_contribution |-> <<>>]

\* The empty string.
EmptyText == [failed |-> FALSE, prompt |-> NoPrompt("")]

\* result.content: what the model answers to a filled prompt.
Reply(prompt) == [failed |-> FALSE, prompt |-> prompt]

\* The text an except branch stores or returns in place of a reply.
FailureText(kind) == [failed |-> TRUE, prompt |-> NoPrompt(kind)]

\* if not self.agent_rewards: self.calculate_agent_rewards()
RewardsMemoised(m, profiles, rewards) ==
    IF DOMAIN rewards = {}
    THEN RewardLoop(m, LoopBasis(m, profiles), rewards)
    ELSE rewards

\* The prompt of generate_individual_feedback for one agent.
IndividualPrompt(m, rewards, agent_id) ==
    LET latest == get_latest_scores(m)
    IN  [kind |-> "agent_individual_feedback", agent_id |-> agent_id,
         planning_score |-> latest[1], communication_score |-> latest[2],
         contribution_ratio |-> calculate_agent_contribution_ratio(m, agent_id),
         agent_reward |-> rewards[agent_id],
         agent_milestones |-> KpiGet(MetricsGet(m, "agent_kpis", <<>>), agent_id, 0),
         total_milestones |-> MetricsGet(m, "total_milestones", 0),
         sorted_agent_contribution |-> <<>>]

\* Mutant: a failing model call leaves the agent without a new text.
FeedbackLoopSkippingFailures(m, rewards, feedbacks, failing) ==
    [a \in (DOMAIN feedbacks) \cup ((DOMAIN rewards) \ failing) |->
        IF a \in (DOMAIN rewards) \ failing
        THEN Reply(IndividualPrompt(m, rewards, a))
        ELSE feedbacks[a]]

\* for agent_id, agent_reward in self.agent_rewards.items(): one text per
\* rewarded agent, the failure text for the agents whose model call fails.
FeedbackLoop(m, rewards, feedbacks, failing) ==
    [a \in (DOMAIN feedbacks) \cup (DOMAIN rewards) |->
        IF a \in DOMAIN rewards
        THEN IF a \in failing THEN FailureText("feedbackGenerationFailed")
             ELSE Reply(IndividualPrompt(m, rewards, a))
        ELSE feedbacks[a]]

\* The text generate_team_feedback stores in self.team_feedback.
TeamFeedback(m, fails) ==
    LET latest == get_latest_scores(m)
        prompt == [NoPrompt("team_collective_feedback") EXCEPT
                      !.planning_score = latest[1],
                      !.communication_score = latest[2],
                      !.total_milestones = MetricsGet(m, "total_milestones", 0),
                      !.sorted_agent_contribution =
                          SortedByRatioReverse(AgentContribution(m))]
    IN  IF fails THEN FailureText("teamFeedbackGenerationFailed") ELSE Reply(prompt)

\* The rewards after the first check of generate_reward_explanation.
RewardsForExplanation(m, profiles, rewards, agent_id) ==
    IF agent_id \notin DOMAIN rewards
    THEN RewardLoop(m, LoopBasis(m, profiles), rewards)
    ELSE rewards

\* What generate_reward_explanation returns; rewards are the rewards after
\* its first check.
RewardExplanation(m, rewards, agent_id, fails) ==
    LET latest == get_latest_scores(m)
    IN  IF agent_id \notin DOMAIN rewards THEN FailureText("No or valid data")
        ELSE IF fails THEN FailureText("Reward explanation generation failed")
        ELSE Reply([NoPrompt("reward_explanation") EXCEPT
                       !.planning_score = latest[1],
                       !.communication_score = latest[2],
                       !.contribution_ratio =
                           calculate_agent_contribution_ratio(m, agent_id),
                       !.agent_reward = rewards[agent_id]])

\* Mutant: the summary reports the normalised scores.
MetricsSummaryNormalized(m) ==
    LET latest == get_latest_scores(m)
    IN  [latest_planning_score |-> RMul(latest[1], score_normalize_factor),
         latest_communication_score |-> RMul(latest[2], score_normalize_factor),
         total_milestones |-> MetricsGet(m, "total_milestones", 0),
         agent_kpis |-> m["agent_kpis"],
         sorted_agent_contribution |-> SortedByRatioReverse(AgentContribution(m))]

\* The "metrics_summary" entry of the package.
MetricsSummary(m) ==
    LET latest == get_latest_scores(m)
    IN  [latest_planning_score |-> latest[1],
         latest_communication_score |-> latest[2],
         total_milestones |-> MetricsGet(m, "total_milestones", 0),
         agent_kpis |-> m["agent_kpis"],
         sorted_agent_contribution |-> SortedByRatioReverse(AgentContribution(m))]

\* The dict get_full_feedback_package returns.  Three of its entries are the
\* provider's own objects, not copies: the package holds the reference, and
\* at_return records what the object held when the package was returned.
FullFeedback(m, rewards, feedbacks, team, failing) ==
    [is_none |-> FALSE,
     team_feedback |-> team,
     individual_feedbacks |-> "self.individual_feedbacks",
     agent_rewards |-> "self.agent_rewards",
     reward_weights |-> "REWARD_WEIGHTS",
     metrics_summary |-> MetricsSummary(m),
     agent_reward_explanations |->
         [a \in DOMAIN rewards |-> RewardExplanation(m, rewards, a, a \in failing)],
     at_return |-> [individual_feedbacks |-> feedbacks,
                    agent_rewards |-> rewards,
                    reward_weights |-> REWARD_WEIGHTS,
                    metrics |-> m,
                    agent_profiles |-> agent_profiles]]

\* What an entry of a package that holds a reference reads as now.
Deref(ref) ==
    CASE ref = "self.agent_rewards" -> agent_rewards
      [] ref = "self.individual_feedbacks" -> individual_feedbacks
      [] ref = "REWARD_WEIGHTS" -> REWARD_WEIGHTS

\* return None
NonePackage ==
    [is_none |-> TRUE,
     team_feedback |-> EmptyText,
     individual_feedbacks |-> "",
     agent_rewards |-> "",
     reward_weights |-> "",
     metrics_summary |->
         [latest_planning_score |-> Float(0), latest_communication_score |-> Float(0),
          total_milestones |-> 0, agent_kpis |-> NoSeq,
          sorted_agent_contribution |-> <<>>],
     agent_reward_explanations |-> EmptyDict,
     at_return |-> [individual_feedbacks |-> EmptyDict, agent_rewards |-> EmptyDict,
                    reward_weights |-> REWARD_WEIGHTS, metrics |-> metrics,
                    agent_profiles |-> agent_profiles]]

\* Mutant: the package is built whatever the flag says.
FeedbackAlwaysEnabled(flag) == TRUE

\* if not self.is_feedback: return None
FeedbackEnabled(flag) == flag

\* Some ratio the operation computes for one of these agents raises.
RatioRaises(m, ids) ==
    \E a \in ids : IsError(calculate_agent_contribution_ratio(m, a))

\* generate_individual_feedback; failing are the agents for whom a model call
\* fails when it is made.
generate_individual_feedback(failing) ==
    LET rewards == RewardsMemoised(metrics, agent_profiles, agent_rewards)
        failed == RatioRaises(metrics, (DOMAIN rewards) \cup agent_profiles)
    IN  /\ n_calls < MaxCalls
        /\ n_calls' = n_calls + 1
        /\ raised' = IF failed THEN "ZeroDivisionError" ELSE "none"
        /\ agent_rewards' = IF failed THEN agent_rewards ELSE rewards
        /\ individual_feedbacks' =
               IF failed THEN individual_feedbacks
               ELSE FeedbackLoop(metrics, rewards, individual_feedbacks, failing)
        /\ metrics' = DictAfterGet(MetricsAfterReads(metrics), "total_milestones", 0)
        /\ UNCHANGED <<agent_profiles, rewards_out, ranking_out, ratio_out>>
        /\ model_calls' = IF failed THEN model_calls ELSE Cardinality(DOMAIN rewards)
        /\ UNCHANGED <<is_feedback, team_feedback, explanation_out, packages>>
        /\ UNCHANGED <<threads, jsonlVars, restVars>>

\* generate_team_feedback; fails tells whether the model call fails.
generate_team_feedback(fails) ==
    LET failed == RatioRaises(metrics, KpiKeys(MetricsGet(metrics, "agent_kpis", <<>>)))
    IN  /\ n_calls < MaxCalls
        /\ n_calls' = n_calls + 1
        /\ raised' = IF failed THEN "ZeroDivisionError" ELSE "none"
        /\ team_feedback' = IF failed THEN team_feedback ELSE TeamFeedback(metrics, fails)
        /\ metrics' = DictAfterGet(MetricsAfterReads(metrics), "total_milestones", 0)
        /\ UNCHANGED <<agent_profiles, agent_rewards, rewards_out, ranking_out, ratio_out>>
        /\ model_calls' = IF failed THEN model_calls ELSE 1
        /\ UNCHANGED <<is_feedback, individual_feedbacks, explanation_out, packages>>
        /\ UNCHANGED <<threads, jsonlVars, restVars>>

\* generate_reward_explanation(agent_id); fails tells whether the model call fails.
generate_reward_explanation(agent_id, fails) ==
    LET rewards == RewardsForExplanation(metrics, agent_profiles, agent_rewards, agent_id)
        failed == RatioRaises(metrics, agent_profiles \cup {agent_id})
    IN  /\ n_calls < MaxCalls
        /\ n_calls' = n_calls + 1
        /\ raised' = IF failed THEN "ZeroDivisionError" ELSE "none"
        /\ agent_rewards' = IF failed THEN agent_rewards ELSE rewards
        /\ explanation_out' =
               IF failed THEN explanation_out
               ELSE Returned(RewardExplanation(metrics, rewards, agent_id, fails))
        /\ metrics' = MetricsAfterReads(metrics)
        /\ UNCHANGED <<agent_profiles, rewards_out, ranking_out, ratio_out>>
        /\ model_calls' = IF failed THEN model_calls
                          ELSE IF agent_id \in DOMAIN rewards THEN 1 ELSE 0
        /\ UNCHANGED <<is_feedback, individual_feedbacks, team_feedback, packages>>
        /\ UNCHANGED <<threads, jsonlVars, restVars>>

\* get_full_feedback_package; failing are the agents whose feedback call
\* fails, team_fails tells whether the team call fails, failing_explanations
\* are the agents whose explanation call fails.
get_full_feedback_package(failing, team_fails, failing_explanations) ==
    LET rewards == RewardsMemoised(metrics, agent_profiles, agent_rewards)
        feedbacks == FeedbackLoop(metrics, rewards, individual_feedbacks, failing)
        team == TeamFeedback(metrics, team_fails)
        failed == RatioRaises(metrics, (DOMAIN rewards) \cup agent_profiles
                                       \cup KpiKeys(MetricsGet(metrics, "agent_kpis", <<>>)))
    IN  /\ n_calls < MaxCalls
        /\ n_calls' = n_calls + 1
        /\ IF ~FeedbackEnabled(is_feedback)
           THEN /\ raised' = "none"
                /\ packages' = Append(packages, NonePackage)
                /\ model_calls' = 0
                /\ UNCHANGED <<metrics, agent_rewards, individual_feedbacks, team_feedback>>
           ELSE /\ raised' = IF failed THEN "ZeroDivisionError" ELSE "none"
                /\ agent_rewards' = IF failed THEN agent_rewards ELSE rewards
                /\ individual_feedbacks' = IF failed THEN individual_feedbacks ELSE feedbacks
                /\ team_feedback' = IF failed THEN team_feedback ELSE team
                /\ packages' =
                       IF failed THEN packages
                       ELSE Append(packages,
                                   FullFeedback(metrics, rewards, feedbacks, team,
                                                failing_explanations))
                /\ model_calls' = IF failed THEN model_calls
                                  ELSE 2 * Cardinality(DOMAIN rewards) + 1
                /\ metrics' = DictAfterGet(MetricsAfterReads(metrics), "total_milestones", 0)
        /\ UNCHANGED <<agent_profiles, rewards_out, ranking_out, ratio_out>>
        /\ UNCHANGED <<is_feedback, explanation_out>>
        /\ UNCHANGED <<threads, jsonlVars, restVars>>

(***************************************************************************)
(* The provider's surroundings: the evaluator that fills the metrics store *)
(* between cycles, and the owner of the roster dict the provider shares.   *)
(***************************************************************************)
\* The evaluator records the scores of the cycle that just ended.
evaluator_appends_scores(planning, communication) ==
    /\ Len(MetricsGet(metrics, "planning_score", <<>>)) < MaxScoreLen
    /\ Len(MetricsGet(metrics, "communication_score", <<>>)) < MaxScoreLen
    /\ metrics' = [metrics EXCEPT
           !["planning_score"] =
               Some(Append(MetricsGet(metrics, "planning_score", <<>>), planning)),
           !["communication_score"] =
               Some(Append(MetricsGet(metrics, "communication_score", <<>>), communication))]
    /\ UNCHANGED <<agent_profiles, agent_rewards, rewards_out, ranking_out, ratio_out,
                   raised, n_calls, feedbackVars, threads, jsonlVars, restVars>>

\* The owner of the agent_profiles dict deletes an agent; the provider
\* stores that dict by reference and sees the deletion.
roster_removes(agent_id) ==
    /\ agent_id \in agent_profiles
    /\ agent_profiles' = agent_profiles \ {agent_id}
    /\ UNCHANGED <<metrics, agent_rewards, rewards_out, ranking_out, ratio_out,
                   raised, n_calls, feedbackVars, threads, jsonlVars, restVars>>

(***************************************************************************)
(* calculate_agent_rewards run by several threads on one provider, one     *)
(* step per visit of the store.                                            *)
(***************************************************************************)
Threads == {"t1", "t2"}

\* A thread that has not called yet.
IdleThread(m) ==
    [pc |-> "idle", latest |-> <<Float(0), Float(0)>>, agent_kpis |-> <<>>,
     todo |-> {}, snapshot |-> m, ret |-> EmptyDict]

\* Lines 107-108: the call reads the latest scores and takes the agent_kpis
\* dict of the store of that moment; snapshot records that store.
thread_begins(t) ==
    /\ threads[t].pc = "idle"
    /\ threads' = [threads EXCEPT ![t] =
           [pc |-> "loop",
            latest |-> get_latest_scores(metrics),
            agent_kpis |-> MetricsGet(metrics, "agent_kpis", <<>>),
            todo |-> LoopBasis(metrics, agent_profiles),
            snapshot |-> metrics,
            ret |-> EmptyDict]]
    /\ UNCHANGED <<metrics, agent_profiles, agent_rewards, rewards_out, ranking_out,
                   ratio_out, raised, n_calls, feedbackVars, jsonlVars, restVars>>

\* Lines 114-134 for one agent: membership is tested on the agent_kpis dict
\* taken at line 108, the ratio helper reads the evaluator's current store,
\* the reward goes into the dict all calls share.
thread_iterates(t) ==
    /\ threads[t].pc = "loop"
    /\ threads[t].todo # {}
    /\ LET agent_id == CHOOSE a \in threads[t].todo : TRUE
           contribution_ratio ==
               IF agent_id \in KpiKeys(threads[t].agent_kpis)
               THEN calculate_agent_contribution_ratio(metrics, agent_id)
               ELSE Float(0)
       IN  /\ agent_rewards' =
                  StoreReward(agent_rewards, agent_id,
                              WeightedReward(threads[t].latest, contribution_ratio))
           /\ threads' = [threads EXCEPT ![t].todo = @ \ {agent_id}]
    /\ UNCHANGED <<metrics, agent_profiles, rewards_out, ranking_out,
                   ratio_out, raised, n_calls, feedbackVars, jsonlVars, restVars>>

\* Line 136: the call returns the shared dict; ret is what it holds then.
thread_returns(t) ==
    /\ threads[t].pc = "loop"
    /\ threads[t].todo = {}
    /\ threads' = [threads EXCEPT ![t].pc = "done", ![t].ret = agent_rewards]
    /\ UNCHANGED <<metrics, agent_profiles, agent_rewards, rewards_out, ranking_out,
                   ratio_out, raised, n_calls, feedbackVars, jsonlVars, restVars>>

(***************************************************************************)
(* generate_jsonl.py.  A file is a sequence of lines; an input line is its *)
(* text after strip(), "" for a blank line; an output line is the JSON     *)
(* object written, of which the task id and the task text are kept.        *)
(***************************************************************************)
\* An optional argument: None or an integer.
NoneArg == [none |-> TRUE, v |-> 0]
IntArg(v) == [none |-> FALSE, v |-> v]

\* json.dumps(temp_dict, ...) + '\n': one line that json.loads accepts.
JsonLine(task_id, task_content) ==
    [json |-> TRUE, task_id |-> task_id, task |-> task_content]

\* get_existing_task_count: 0 without file, else the number of lines that
\* are not blank and parse as JSON.
get_existing_task_count(file) ==
    IF ~file.exists THEN 0
    ELSE Len(SelectSeq(file.lines, LAMBDA line : line.json))

\* Mutant: a blank input line is skipped but takes a task id.
WrittenLinesCountingBlanks(target_lines, current_task_id) ==
    LET ids == [i \in 1..Len(target_lines) |-> current_task_id + i - 1]
        numbered == [i \in 1..Len(target_lines) |-> JsonLine(ids[i], target_lines[i])]
    IN  SelectSeq(numbered, LAMBDA line : line.task # "")

\* The loop over target_lines: a blank line is skipped, any other line is
\* written with current_task_id, which then goes up by one.
RECURSIVE WrittenLines(_, _)
WrittenLines(target_lines, current_task_id) ==
    IF target_lines = <<>> THEN <<>>
    ELSE IF Head(target_lines) = ""
         THEN WrittenLines(Tail(target_lines), current_task_id)
         ELSE <<JsonLine(current_task_id, Head(target_lines))>>
              \o WrittenLines(Tail(target_lines), current_task_id + 1)

\* all_lines[start_line - 1 : end_line] after the bounds are clipped.
TargetLines(all_lines, start_line, end_line) ==
    LET total_input_lines == Len(all_lines)
        first == IF start_line.none THEN 1
                 ELSE IF start_line.v < 1 THEN 1 ELSE start_line.v
        last == IF end_line.none THEN total_input_lines
                ELSE IF end_line.v > total_input_lines THEN total_input_lines
                     ELSE end_line.v
    IN  [empty_range |-> first > last, lines |-> SubSeq(all_lines, first, last)]

\* replace_task_in_json_template(input_file_path, output_file_path,
\* start_task_id, start_line, end_line) on an input file that exists or not.
replace_task_in_json_template(input_file, start_task_id, start_line, end_line) ==
    LET existing_count == get_existing_task_count(output_file)
        first_task_id == IF start_task_id.none THEN existing_count + 1
                         ELSE start_task_id.v
        target == TargetLines(input_file.lines, start_line, end_line)
        opens_output == input_file.exists /\ ~target.empty_range
    IN  /\ n_runs < MaxRuns
        /\ n_runs' = n_runs + 1
        /\ output_file' =
               IF opens_output
               THEN [exists |-> TRUE,
                     lines |-> output_file.lines
                               \o WrittenLines(target.lines, first_task_id)]
               ELSE output_file
        /\ last_run' = [ran |-> TRUE,
                        existing_lines |-> Len(output_file.lines),
                        start_task_id |-> first_task_id,
                        target_lines |-> IF opens_output THEN target.lines ELSE <<>>]
        /\ UNCHANGED <<metrics, agent_profiles, agent_rewards, rewards_out, ranking_out,
                       ratio_out, raised, n_calls, feedbackVars, threads, restVars>>

(***************************************************************************)
(* solution_1.py: the GameEngine of the treasure hunt.  game holds the     *)
(* engine's fields; solved is the set of titles of the puzzles whose       *)
(* is_solved is set.                                                       *)
(***************************************************************************)
Abilities == {"Strength", "Agility", "Intelligence", "Stealth"}

\* create_environments: the exits of each environment; Start gets none.
Exits ==
    [Start |-> {}, Forest |-> {"Cave"}, Cave |-> {"Ancient Ruins"},
     AncientRuins |-> {}]

\* The key of an environment name in the tables of this module.
EnvKey(name) == IF name = "Ancient Ruins" THEN "AncientRuins" ELSE name

\* self.environments after create_environments.
Environments == {"Start", "Forest", "Cave", "Ancient Ruins"}

\* create_environments: the puzzles, by environment.
Puzzles ==
    [Start |-> {},
     Forest |-> {[title |-> "Tree Bridge",
                  required_abilities |-> {"Strength", "Agility"},
                  solution |-> "Weave the vines together"]},
     Cave |-> {[title |-> "Crystal Pattern",
                required_abilities |-> {"Intelligence"},
                solution |-> "Red-Green-Blue-Red"]},
     AncientRuins |-> {[title |-> "Trap Door",
                        required_abilities |-> {"Stealth"},
                        solution |-> "Step quietly"]}]

\* str.lower() on the strings the model passes around.
Lower(str) ==
    CASE str = "Tree Bridge" -> "tree bridge"
      [] str = "TREE BRIDGE" -> "tree bridge"
      [] str = "Crystal Pattern" -> "crystal pattern"
      [] str = "Trap Door" -> "trap door"
      [] str = "Weave the vines together" -> "weave the vines together"
      [] str = "Red-Green-Blue-Red" -> "red-green-blue-red"
      [] str = "Step quietly" -> "step quietly"
      [] str = "Y" -> "y"
      [] OTHER -> str

\* GameEngine.__init__ followed by create_environments.
NewGame(max_players_per_team) ==
    [max_players_per_team |-> max_players_per_team,
     current_team |-> <<>>,
     current_environment |-> "Start",
     game_started |-> FALSE,
     game_over |-> FALSE,
     score_board |-> {},
     solved |-> {}]

GameReturned(op, val) == [op |-> op, val |-> val]

\* Mutant: no name counts as taken.
NameNeverTaken(team, name) == FALSE

\* any(p.name == name for p in self.current_team)
NameTaken(team, name) == \E i \in 1..Len(team) : team[i].name = name

\* The abilities of the players of a team (all players are active).
AvailableAbilities(team) == {team[i].ability : i \in 1..Len(team)}

\* The route to the final treasure chamber, as calls in order: start_game
\* with a team that has all four abilities, then each environment and its
\* puzzle, then check_victory.
Route ==
    <<[op |-> "start_game", arg |-> "", solution |-> ""],
      [op |-> "move_to_environment", arg |-> "Forest", solution |-> ""],
      [op |-> "solve_puzzle", arg |-> "Tree Bridge",
       solution |-> "Weave the vines together"],
      [op |-> "move_to_environment", arg |-> "Cave", solution |-> ""],
      [op |-> "solve_puzzle", arg |-> "Crystal Pattern",
       solution |-> "Red-Green-Blue-Red"],
      [op |-> "move_to_environment", arg |-> "Ancient Ruins", solution |-> ""],
      [op |-> "solve_puzzle", arg |-> "Trap Door", solution |-> "Step quietly"],
      [op |-> "check_victory", arg |-> "", solution |-> ""]>>

\* The position on the route after a call: one further if the call is the
\* next call of the route, whatever it returned.
RouteAfter(op, arg, solution) ==
    IF /\ route < Len(Route)
       /\ Route[route + 1] = [op |-> op, arg |-> arg, solution |-> solution]
       /\ route = 0 => AvailableAbilities(game.current_team) = Abilities
    THEN route + 1
    ELSE route

\* The other modules do not take part in the game.
GameFrame ==
    UNCHANGED <<metrics, agent_profiles, agent_rewards, rewards_out, ranking_out,
                ratio_out, raised, n_calls, feedbackVars, threads, jsonlVars,
                prompt_out, completion>>

add_player(name, ability) ==
    LET full == Len(game.current_team) >= game.max_players_per_team
        ok == ~full /\ ~NameTaken(game.current_team, name)
    IN  /\ game' = IF ok
                   THEN [game EXCEPT !.current_team =
                            Append(@, [name |-> name, ability |-> ability])]
                   ELSE game
        /\ game_ret' = GameReturned("add_player", ok)
        /\ route' = RouteAfter("add_player", name, "")
        /\ GameFrame

start_game ==
    LET ok == Len(game.current_team) >= 1 /\ ~game.game_started
    IN  /\ game' = IF ok
                   THEN [game EXCEPT
                            !.game_started = TRUE,
                            !.score_board =
                                {game.current_team[i].name :
                                    i \in 1..Len(game.current_team)},
                            !.current_environment = "Start"]
                   ELSE game
        /\ game_ret' = GameReturned("start_game", ok)
        /\ route' = RouteAfter("start_game", "", "")
        /\ GameFrame

\* move_to_environment(target_env); confirm is what the player types when
\* asked whether to leave unsolved puzzles behind.
move_to_environment(target_env, confirm) ==
    LET here == EnvKey(game.current_environment)
        unsolved_puzzles == {p \in Puzzles[here] : p.title \notin game.solved}
        ok == /\ game.game_started /\ ~game.game_over
              /\ target_env \in Environments
              /\ target_env \in Exits[here]
              /\ (game.current_environment # "Start" /\ unsolved_puzzles # {})
                     => Lower(confirm) = "y"
    IN  /\ game' = IF ok THEN [game EXCEPT !.current_environment = target_env]
                   ELSE game
        /\ game_ret' = GameReturned("move_to_environment", ok)
        /\ route' = RouteAfter("move_to_environment", target_env, "")
        /\ GameFrame

\* Puzzle.solve as called by solve_puzzle.
PuzzleSolves(puzzle, solution_input, players) ==
    /\ puzzle.required_abilities \subseteq AvailableAbilities(players)
    /\ Lower(solution_input) = Lower(puzzle.solution)

solve_puzzle(puzzle_title, solution) ==
    LET here == EnvKey(game.current_environment)
        found == {p \in Puzzles[here] : Lower(p.title) = Lower(puzzle_title)}
        ok == /\ game.game_started /\ ~game.game_over
              /\ \E p \in found :
                    /\ p.title \notin game.solved
                    /\ PuzzleSolves(p, solution, game.current_team)
    IN  /\ game' = IF ok
                   THEN [game EXCEPT !.solved = @ \cup {p.title : p \in found}]
                   ELSE game
        /\ game_ret' = GameReturned("solve_puzzle", ok)
        /\ route' = RouteAfter("solve_puzzle", puzzle_title, solution)
        /\ GameFrame

check_victory ==
    LET ok == /\ game.current_environment = "Ancient Ruins"
              /\ "Trap Door" \in game.solved
    IN  /\ game' = IF ok THEN [game EXCEPT !.game_over = TRUE] ELSE game
        /\ game_ret' = GameReturned("check_victory", ok)
        /\ route' = RouteAfter("check_victory", "", "")
        /\ GameFrame

(***************************************************************************)
(* feedback_support.py: the prompts that embed a feedback package.  A      *)
(* package argument is None or a dict that has or lacks each of the three  *)
(* keys the functions look up; texts are named by what they say.           *)
(***************************************************************************)
\* Mutant: the digits after the fourth decimal are cut off.
FixedFloor4(x) == (x.n * 10000) \div x.d

\* f"{agent_reward:.4f}" on a non-negative value, as a number of
\* ten-thousandths: the nearest one.  A value halfway between two is decided
\* by the binary expansion of the float; here the even one is taken, and the
\* rewards of PromptRewards hold no such value.
Fixed4(x) ==
    LET scaled == x.n * 10000
        below == scaled \div x.d
        rest == scaled % x.d
    IN  IF 2 * rest > x.d THEN below + 1
        ELSE IF 2 * rest < x.d THEN below
        ELSE IF below % 2 = 0 THEN below ELSE below + 1

\* An empty dict of texts.
NoTexts == [x \in {} |-> ""]

\* full_feedback = None
NoneFeedback ==
    [is_none |-> TRUE, has_rewards |-> FALSE, agent_rewards |-> EmptyDict,
     has_individual |-> FALSE, individual_feedbacks |-> NoTexts,
     has_team |-> FALSE, team_feedback |-> ""]

\* not full_feedback: None or a dict without any key.
NotFullFeedback(full_feedback) ==
    \/ full_feedback.is_none
    \/ ~(full_feedback.has_rewards \/ full_feedback.has_individual
         \/ full_feedback.has_team)

\* The default texts of the two functions: for a missing package, and for
\* a package that lacks the entry looked up.
DefaultText(fn, which, why) ==
    [default |-> TRUE, fn |-> fn, which |-> which, text |-> why]

\* A text taken from the package.
PackageText(text) == [default |-> FALSE, fn |-> "", which |-> "", text |-> text]

\* The body shared by generate_agent_task_planning_prompt (fn "planning")
\* and generate_agent_task_execution_prompt (fn "execution"): what the
\* feedback module of the prompt embeds for one agent.
EmbeddedFeedback(fn, agent_id, full_feedback) ==
    LET agent_reward ==
            IF NotFullFeedback(full_feedback) THEN Float(0)
            ELSE IF /\ full_feedback.has_rewards
                    /\ agent_id \in DOMAIN full_feedback.agent_rewards
                 THEN full_feedback.agent_rewards[agent_id]
                 ELSE Float(0)
    IN  [called |-> TRUE, fn |-> fn, agent_id |-> agent_id,
         full_feedback |-> full_feedback,
         agent_reward |-> Fixed4(agent_reward),
         individual_feedback |->
             IF NotFullFeedback(full_feedback)
             THEN DefaultText(fn, "individual", "no history")
             ELSE IF /\ full_feedback.has_individual
                     /\ agent_id \in DOMAIN full_feedback.individual_feedbacks
                  THEN PackageText(full_feedback.individual_feedbacks[agent_id])
                  ELSE DefaultText(fn, "individual", "no valid data"),
         team_feedback |->
             IF NotFullFeedback(full_feedback)
             THEN DefaultText(fn, "team", "no history")
             ELSE IF full_feedback.has_team
                  THEN PackageText(full_feedback.team_feedback)
                  ELSE DefaultText(fn, "team", "no valid data")]

\* The other modules do not take part in building a prompt.
PromptFrame ==
    UNCHANGED <<metrics, agent_profiles, agent_rewards, rewards_out, ranking_out,
                ratio_out, raised, n_calls, feedbackVars, threads, jsonlVars,
                gameVars, completion>>

generate_agent_task_planning_prompt(agent_id, full_feedback) ==
    /\ prompt_out' = EmbeddedFeedback("planning", agent_id, full_feedback)
    /\ PromptFrame

generate_agent_task_execution_prompt(agent_id, full_feedback) ==
    /\ prompt_out' = EmbeddedFeedback("execution", agent_id, full_feedback)
    /\ PromptFrame

(***************************************************************************)
(* model_prompting.py: one call, that is one request to the completion     *)
(* service.                                                                *)
(***************************************************************************)
\* max_length = 350000
max_length == 350000

\* max_token_num: Optional[int] = 512
default_max_token_num == 512

\* max_token_num = 4096, assigned in the body before the request
body_max_token_num == 4096

\* The base_url chosen from the model name.
BaseUrl(llm_model) ==
    CASE llm_model = "together_ai/TA/llama" -> "https://api.ohmygpt.com/v1"
      [] llm_model = "deepseek-chat" -> "https://api.deepseek.com/v1"
      [] llm_model = "gpt-4o" -> "https://api.deerapi.com/v1"
      [] OTHER -> "None"

\* The length of a message after the loop that cuts long contents and
\* appends '...'.
Compressed(content_len) ==
    IF content_len > max_length THEN max_length + 3 ELSE content_len

\* The max_tokens of the request: the parameter as it is when
\* litellm.completion is called.
RequestMaxTokens(max_token_num) == body_max_token_num

\* model_prompting(llm_model, messages, return_num, max_token_num); given
\* tells whether the caller passes max_token_num, fails whether the service
\* raises.
model_prompting(llm_model, content_len, return_num, given, max_token_num, fails) ==
    LET argument == IF given THEN max_token_num ELSE default_max_token_num
    IN  /\ completion' = [called |-> TRUE,
                          max_tokens |-> RequestMaxTokens(argument),
                          n |-> return_num,
                          base_url |-> BaseUrl(llm_model),
                          content_len |-> Compressed(content_len),
                          raised |-> fails,
                          max_token_num |-> argument]
        /\ UNCHANGED <<metrics, agent_profiles, agent_rewards, rewards_out, ranking_out,
                       ratio_out, raised, n_calls, feedbackVars, threads, jsonlVars,
                       gameVars, prompt_out>>

(***************************************************************************)
(* Inputs: the metrics stores and rosters a provider is constructed on.    *)
(***************************************************************************)
Injective(s) == \A i, j \in 1..Len(s) : s[i].id = s[j].id => i = j

KpiEntries == [id : Agents, n : CountVals]

\* agent_kpis dicts: entries in insertion order, one per key.
KpiMaps ==
    UNION {{s \in [1..k -> KpiEntries] : Injective(s)} : k \in 0..Cardinality(Agents)}

ScoreSeqs(n) == UNION {[1..k -> ScoreVals] : k \in 0..n}

\* Score histories of up to MaxScoreLen entries, and no list at all.
Histories == UNION {[1..k -> HistoryVals] : k \in 0..MaxScoreLen}
OptHistories == {NoSeq} \cup {Some(s) : s \in Histories}
OptKpis == {NoSeq} \cup {Some(k) : k \in KpiMaps}
OptTotals == {NoInt} \cup {Some(t) : t \in TotalVals}

\* The store of the scenario of the specification: A has 3 of 4 milestones, B 1.
ScenarioKpis == <<[id |-> "A", n |-> 3], [id |-> "B", n |-> 1]>>

\* No game engine has been constructed.
NoGame ==
    /\ game = NewGame(0)
    /\ game_ret = GameReturned("", FALSE)
    /\ route = 0

\* No prompt has been built.
NoPromptBuilt ==
    prompt_out = [called |-> FALSE, fn |-> "", agent_id |-> "",
                  full_feedback |-> NoneFeedback,
                  agent_reward |-> 0,
                  individual_feedback |-> PackageText(""),
                  team_feedback |-> PackageText("")]

\* No request has been sent to the completion service.
NoCompletion ==
    completion = [called |-> FALSE, max_tokens |-> 0, n |-> 0, base_url |-> "",
                  content_len |-> 0, raised |-> FALSE, max_token_num |-> 0]

\* No game engine, no prompt built, no request sent yet.
RestIdle == NoGame /\ NoPromptBuilt /\ NoCompletion

\* No concurrent invocation is in progress.
NoThreads == threads = <<>>

\* The JSONL generator has not run and its output file does not exist.
NoJsonlRun ==
    /\ output_file = [exists |-> FALSE, lines |-> <<>>]
    /\ n_runs = 0
    /\ last_run = [ran |-> FALSE, existing_lines |-> 0, start_task_id |-> 0,
                   target_lines |-> <<>>]

FreshProvider ==
    /\ agent_rewards = EmptyDict
    /\ rewards_out = NotCalled(EmptyDict)
    /\ ranking_out = NotCalled(<<>>)
    /\ ratio_out = [called |-> FALSE, agent_id |-> "", val |-> Float(0)]
    /\ raised = "none"
    /\ n_calls = 0
    /\ individual_feedbacks = EmptyDict
    /\ team_feedback = EmptyText
    /\ explanation_out = NotCalled(EmptyText)
    /\ packages = <<>>
    /\ model_calls = 0

\* Score lists of at most one entry, always present in the store.
LatestOnly == {Some(s) : s \in ScoreSeqs(1)}

\* Every contribution store and roster, with score lists of at most one entry.
Init ==
    /\ metrics \in [agent_kpis : OptKpis, total_milestones : OptTotals,
                    planning_score : LatestOnly, communication_score : LatestOnly]
    /\ agent_profiles \in SUBSET Agents
    /\ FreshProvider
    /\ RestIdle
    /\ is_feedback = TRUE
    /\ NoThreads
    /\ NoJsonlRun

\* Every score history up to MaxScoreLen, on the scenario's contribution data.
InitHistory ==
    /\ metrics \in [agent_kpis : {Some(ScenarioKpis)},
                    total_milestones : {Some(4), Some(1)},
                    planning_score : OptHistories,
                    communication_score : OptHistories]
    /\ agent_profiles = Agents
    /\ FreshProvider
    /\ RestIdle
    /\ is_feedback = TRUE
    /\ NoThreads
    /\ NoJsonlRun

Next ==
    \/ calculate_agent_rewards
    \/ sorted_agent_contribution

Spec == Init /\ [][Next]_vars

SpecHistory == InitHistory /\ [][Next]_vars

\* Every contribution store, without scores: the inputs of the ratio helper.
InitRatio ==
    /\ metrics \in [agent_kpis : OptKpis, total_milestones : OptTotals,
                    planning_score : {NoSeq}, communication_score : {NoSeq}]
    /\ agent_profiles = Agents
    /\ FreshProvider
    /\ RestIdle
    /\ is_feedback = TRUE
    /\ NoThreads
    /\ NoJsonlRun

NextRatio == \E agent_id \in Agents : contribution_ratio_call(agent_id)

SpecRatio == InitRatio /\ [][NextRatio]_vars

\* The texts of the input lines; "" is a blank line.
TaskTexts == {"a", "b"}

\* Input files: a missing one, and every file of at most MaxInputLen lines.
InputFiles ==
    {[exists |-> FALSE, lines |-> <<>>]}
    \cup {[exists |-> TRUE, lines |-> l] :
            l \in UNION {[1..k -> TaskTexts \cup {""}] : k \in 0..MaxInputLen}}

\* Line bounds: none, one below the first line, and the second line.
LineArgs == {NoneArg, IntArg(0), IntArg(2)}

\* The output file is absent or empty before the first run.
InitJsonl ==
    /\ metrics \in [agent_kpis : {NoSeq}, total_milestones : {NoInt},
                    planning_score : {NoSeq}, communication_score : {NoSeq}]
    /\ agent_profiles = {}
    /\ FreshProvider
    /\ RestIdle
    /\ is_feedback = TRUE
    /\ NoThreads
    /\ n_runs = 0
    /\ last_run = [ran |-> FALSE, existing_lines |-> 0, start_task_id |-> 0,
                   target_lines |-> <<>>]
    /\ output_file \in {[exists |-> e, lines |-> <<>>] : e \in BOOLEAN}

\* Runs that let the start id be computed from the output file.
NextJsonl ==
    \E input_file \in InputFiles, start_line, end_line \in LineArgs :
        replace_task_in_json_template(input_file, NoneArg, start_line, end_line)

SpecJsonl == InitJsonl /\ [][NextJsonl]_vars

\* The stores of successive cycles.
CycleStores ==
    [agent_kpis : {Some(ScenarioKpis), Some(<<[id |-> "A", n |-> 1], [id |-> "B", n |-> 3]>>)},
     total_milestones : {Some(4)},
     planning_score : {Some(<<4>>), Some(<<-1>>)},
     communication_score : {Some(<<4>>)}]

\* The evaluator's metrics are replaced by the store of the next cycle.
evaluator_replaces_metrics ==
    /\ \E m \in CycleStores \ {metrics} : metrics' = m
    /\ UNCHANGED <<agent_profiles, agent_rewards, rewards_out, ranking_out, ratio_out,
                   raised, n_calls, feedbackVars, threads, jsonlVars, restVars>>

\* Two threads about to call calculate_agent_rewards on one fresh provider.
InitConcurrent ==
    /\ metrics \in CycleStores
    /\ agent_profiles = Agents
    /\ FreshProvider
    /\ RestIdle
    /\ is_feedback = TRUE
    /\ threads = [t \in Threads |-> IdleThread(metrics)]
    /\ NoJsonlRun

NextConcurrent ==
    \/ \E t \in Threads : thread_begins(t)
    \/ \E t \in Threads : thread_iterates(t)
    \/ \E t \in Threads : thread_returns(t)
    \/ evaluator_replaces_metrics

SpecConcurrent == InitConcurrent /\ [][NextConcurrent]_vars

\* The scores the evaluator records for a cycle: <<planning, communication>>,
\* the communication score being a real score or the sentinel.
CycleScores == {<<4, 4>>, <<4, -1>>}

\* A provider on the scenario's contribution data before the first cycle is
\* scored, with or without a total and with feedback switched on or off.
InitPackage ==
    /\ metrics \in [agent_kpis : {Some(ScenarioKpis)},
                    total_milestones : {Some(4), NoInt},
                    planning_score : {Some(<<>>)},
                    communication_score : {Some(<<>>)}]
    /\ agent_profiles \in {Agents, {"A"}}
    /\ FreshProvider
    /\ RestIdle
    /\ is_feedback \in BOOLEAN
    /\ NoThreads
    /\ NoJsonlRun

\* The model calls that fail when the model is down: all of them.
ModelDown(down) == IF down THEN Agents ELSE {}

\* A call of one of the provider's operations.
ProviderCall ==
    \/ calculate_agent_rewards
    \/ sorted_agent_contribution
    \/ \E failing \in SUBSET Agents : generate_individual_feedback(failing)
    \/ \E fails \in BOOLEAN : generate_team_feedback(fails)
    \/ \E agent_id \in Agents, fails \in BOOLEAN :
           generate_reward_explanation(agent_id, fails)
    \/ \E down \in BOOLEAN :
           get_full_feedback_package(ModelDown(down), down, ModelDown(down))

\* The operations alone, on a store and a roster nobody else touches.
SpecProvider == InitPackage /\ [][ProviderCall]_vars

\* Cycles: the evaluator scores a cycle, the roster shrinks, and the caller
\* asks for rewards or for the package; the model is up or down for a call.
NextPackage ==
    \/ calculate_agent_rewards
    \/ \E down \in BOOLEAN :
           get_full_feedback_package(ModelDown(down), down, ModelDown(down))
    \/ \E scores \in CycleScores : evaluator_appends_scores(scores[1], scores[2])
    \/ \E agent_id \in Agents : roster_removes(agent_id)

SpecPackage == InitPackage /\ [][NextPackage]_vars

(***************************************************************************)
(* Properties.  The expected values are written in integer arithmetic,    *)
(* independently of the rational operators the model computes with.       *)
(***************************************************************************)
Kpis == MetricsGet(metrics, "agent_kpis", <<>>)
Planning == MetricsGet(metrics, "planning_score", <<>>)
Communication == MetricsGet(metrics, "communication_score", <<>>)

\* The raw score that enters the reward: the last entry of the list, 3 for
\* an empty or absent list, 0 for the sentinel -1.
UsedScore(scores) ==
    IF scores = <<>> THEN 3
    ELSE IF scores[Len(scores)] = -1 THEN 0 ELSE scores[Len(scores)]

\* r = clamp(0.4 * (p / 5) + 0.3 * (c / 5) + 0.3 * ratio, 0, 1), that is
\* clamp(((4p + 3c) * ratio.d + 15 * ratio.n) / (50 * ratio.d), 0, 1).
IsReward(r, p, c, ratio) ==
    LET num == (4 * p + 3 * c) * ratio.d + 15 * ratio.n
        den == 50 * ratio.d
    IN  /\ ratio.d > 0
        /\ r.d > 0
        /\ IF num <= 0 THEN r.n = 0
           ELSE IF num >= den THEN r.n = r.d
           ELSE r.n * den = num * r.d

\* r = num / den
IsFraction(r, num, den) == r.d > 0 /\ r.n * den = num * r.d

IsScenario ==
    /\ agent_profiles = {"A", "B"}
    /\ metrics.agent_kpis = Some(ScenarioKpis)
    /\ metrics.total_milestones = Some(4)
    /\ metrics.planning_score = Some(<<4>>)
    /\ metrics.communication_score = Some(<<-1>>)

\* C1: every value of the reward mapping returned by calculate_agent_rewards
\* lies in [0, 1], whatever the roster, the counts, the total and the scores.
C1_RewardsInUnitInterval ==
    rewards_out.called =>
        \A a \in DOMAIN rewards_out.val :
            /\ rewards_out.val[a].d > 0
            /\ 0 <= rewards_out.val[a].n
            /\ rewards_out.val[a].n <= rewards_out.val[a].d

\* C1 witness: a returned reward that the upper clip produced (score 30).
C1_Witness ==
    /\ rewards_out.called
    /\ Planning = <<30>>
    /\ Communication = <<-3>>
    /\ \E a \in agent_profiles : rewards_out.val[a] = Float(1)

\* C2: every roster agent's reward is clamp(0.4 * planning / 5 + 0.3 *
\* communication / 5 + 0.3 * contribution ratio, 0, 1) in exact arithmetic;
\* in the scenario of the specification A gets 0.545 and B gets 0.395.
C2_RewardFormula ==
    rewards_out.called =>
        /\ \A a \in agent_profiles :
              /\ a \in DOMAIN rewards_out.val
              /\ IsReward(rewards_out.val[a], UsedScore(Planning),
                          UsedScore(Communication), RosterContribution(metrics, a))
        /\ IsScenario =>
              /\ IsFraction(rewards_out.val["A"], 545, 1000)
              /\ IsFraction(rewards_out.val["B"], 395, 1000)

\* C2 witness: the rewards of the scenario have been returned.
C2_Witness == rewards_out.called /\ IsScenario

\* C3: with a total_milestones entry t in the store, the ratio helper returns
\* count / t when t > 0 and 0.0 otherwise (count 0 for an agent without
\* entry), and no call raises; for t = 0 the ratio is 0.0.
C3_ContributionRatio ==
    /\ raised = "none"
    /\ (ratio_out.called /\ metrics.total_milestones.has) =>
          LET t == metrics.total_milestones.v
              count == IF ratio_out.agent_id \in KpiKeys(Kpis)
                       THEN (CHOOSE e \in {Kpis[i] : i \in 1..Len(Kpis)} :
                                 e.id = ratio_out.agent_id).n
                       ELSE 0
          IN  IF t > 0 THEN IsFraction(ratio_out.val, count, t)
              ELSE ratio_out.val.n = 0 /\ ratio_out.val.d = 1

\* C3 witness: the ratio of an agent with 3 milestones under a total of 0.
C3_Witness ==
    /\ ratio_out.called
    /\ metrics.total_milestones = Some(0)
    /\ \E i \in 1..Len(Kpis) : Kpis[i] = [id |-> ratio_out.agent_id, n |-> 3]

\* C4: the returned mapping has an entry for every roster agent; a roster
\* agent without agent_kpis entry gets clamp(0.4 * planning / 5 + 0.3 *
\* communication / 5, 0, 1), the same value for all such agents.
C4_RosterCovered ==
    rewards_out.called =>
        /\ agent_profiles \subseteq DOMAIN rewards_out.val
        /\ \A a \in agent_profiles \ KpiKeys(Kpis) :
              /\ IsReward(rewards_out.val[a], UsedScore(Planning),
                          UsedScore(Communication), [n |-> 0, d |-> 1])
              /\ \A b \in agent_profiles \ KpiKeys(Kpis) :
                    rewards_out.val[a] = rewards_out.val[b]

\* C4 witness: rewards returned for two roster agents, one of them without
\* agent_kpis entry while the other one has milestones.
C4_Witness ==
    /\ rewards_out.called
    /\ agent_profiles = {"A", "B"}
    /\ Kpis = <<[id |-> "B", n |-> 3]>>
    /\ metrics.total_milestones = Some(4)
    /\ rewards_out.val["A"] # rewards_out.val["B"]

Empty(entry) == ~entry.has \/ entry.v = <<>>

\* C5: an empty or absent score list counts as the raw score 3.0 (0.6 after
\* normalisation); with both lists empty the reward is 0.4 * 0.6 + 0.3 * 0.6
\* + 0.3 * ratio for every ratio the data model allows (count <= total), and
\* that value clipped to 1 beyond.
C5_EmptyScoresDefault ==
    rewards_out.called =>
        \A a \in agent_profiles :
            LET r == rewards_out.val[a]
                ratio == RosterContribution(metrics, a)
            IN  /\ Empty(metrics.planning_score) =>
                      IsReward(r, 3, UsedScore(Communication), ratio)
                /\ Empty(metrics.communication_score) =>
                      IsReward(r, UsedScore(Planning), 3, ratio)
                /\ ( /\ Empty(metrics.planning_score)
                     /\ Empty(metrics.communication_score)
                     /\ ratio.n <= ratio.d ) =>
                      IsFraction(r, 21 * ratio.d + 15 * ratio.n, 50 * ratio.d)

\* C5 witness: rewards returned with planning_score absent and
\* communication_score empty, for an agent with a positive ratio.
C5_Witness ==
    /\ rewards_out.called
    /\ metrics.planning_score = NoSeq
    /\ metrics.communication_score = Some(<<>>)
    /\ metrics.total_milestones = Some(4)
    /\ IsFraction(rewards_out.val["A"], 645, 1000)

EndsInSentinel(scores) == scores # <<>> /\ scores[Len(scores)] = -1

\* C6: a score list whose last entry is the sentinel -1 contributes the
\* score 0.0 to the reward, neither -1/5 nor the default 3/5.
C6_SentinelIsZero ==
    rewards_out.called =>
        \A a \in agent_profiles :
            LET r == rewards_out.val[a]
                ratio == RosterContribution(metrics, a)
            IN  /\ EndsInSentinel(Planning) =>
                      IsReward(r, 0, UsedScore(Communication), ratio)
                /\ EndsInSentinel(Communication) =>
                      IsReward(r, UsedScore(Planning), 0, ratio)
                /\ (EndsInSentinel(Planning) /\ EndsInSentinel(Communication)) =>
                      IsReward(r, 0, 0, ratio)

\* C6 witness: rewards returned for a planning history that ends in the sentinel.
C6_Witness ==
    /\ rewards_out.called
    /\ Planning = <<4, -1>>
    /\ Communication = <<-1>>
    /\ metrics.total_milestones = Some(4)
    /\ IsFraction(rewards_out.val["B"], 3, 40)

\* Two score lists with the same last entry (both empty, or both not).
SameLast(s, t) ==
    IF s = <<>> \/ t = <<>> THEN s = t
    ELSE s[Len(s)] = t[Len(t)]

\* C7: the rewards depend on a score list through its last entry only: a
\* store that differs from this one in earlier entries of planning_score, or
\* of communication_score, gives the same reward mapping.
C7_OnlyLastScoreMatters ==
    rewards_out.called =>
        /\ \A p \in Histories :
              SameLast(p, Planning) =>
                  RewardLoop([metrics EXCEPT !.planning_score = Some(p)],
                             agent_profiles, EmptyDict) = rewards_out.val
        /\ \A c \in Histories :
              SameLast(c, Communication) =>
                  RewardLoop([metrics EXCEPT !.communication_score = Some(c)],
                             agent_profiles, EmptyDict) = rewards_out.val

\* C7 witness: rewards returned for histories with an earlier sentinel and an
\* earlier out-of-scale score.
C7_Witness ==
    /\ rewards_out.called
    /\ Planning = <<-1, 4>>
    /\ Communication = <<30, 4>>

PosInKpis(agent_id) == CHOOSE i \in 1..Len(Kpis) : Kpis[i].id = agent_id

\* C8: the ranking is in non-increasing order of ratio, and agents of equal
\* ratio keep the order they have in agent_kpis.
C8_RankingSortedStable ==
    ranking_out.called =>
        \A i, j \in 1..Len(ranking_out.val) :
            i < j =>
                LET x == ranking_out.val[i]
                    y == ranking_out.val[j]
                IN  /\ x[2].n * y[2].d >= y[2].n * x[2].d
                    /\ x[2] = y[2] => PosInKpis(x[1]) < PosInKpis(y[1])

\* C8 witness: a ranking of two agents of equal positive ratio, B first in
\* agent_kpis.
C8_Witness ==
    /\ ranking_out.called
    /\ Kpis = <<[id |-> "B", n |-> 1], [id |-> "A", n |-> 1]>>
    /\ metrics.total_milestones = Some(4)
    /\ Len(ranking_out.val) = 2

RankedIds == {ranking_out.val[i][1] : i \in 1..Len(ranking_out.val)}

\* C9: the ranking holds exactly one pair per key of agent_kpis, carrying that
\* agent's contribution ratio, and none for another agent, whatever the
\* roster: a roster agent without agent_kpis entry is in the reward mapping
\* and not in the ranking.
C9_RankingOverKpiKeys ==
    ranking_out.called =>
        /\ RankedIds = KpiKeys(Kpis)
        /\ Len(ranking_out.val) = Len(Kpis)
        /\ \A i \in 1..Len(ranking_out.val) :
              ranking_out.val[i][2] =
                  calculate_agent_contribution_ratio(metrics, ranking_out.val[i][1])
        /\ rewards_out.called =>
              \A a \in agent_profiles \ KpiKeys(Kpis) :
                  a \in DOMAIN rewards_out.val /\ a \notin RankedIds

\* C9 witness: roster {A}, agent_kpis {B: 3}: A is rewarded and not ranked,
\* B is ranked and not rewarded.
C9_Witness ==
    /\ ranking_out.called
    /\ rewards_out.called
    /\ agent_profiles = {"A"}
    /\ Kpis = <<[id |-> "B", n |-> 3]>>
    /\ RankedIds = {"B"}
    /\ DOMAIN rewards_out.val = {"A"}

\* C10: with metrics and roster unchanged, a further call of
\* calculate_agent_rewards or of sorted_agent_contribution returns what the
\* call before it returned.
C10_RepeatedCallSameResult ==
    [][ /\ (calculate_agent_rewards /\ rewards_out.called) =>
              (raised' = "none" /\ rewards_out' = rewards_out)
        /\ (sorted_agent_contribution /\ ranking_out.called) =>
              (raised' = "none" /\ ranking_out' = ranking_out) ]_vars

\* C10 witness: calculate_agent_rewards has been called twice in a row on a
\* roster of two agents with different rewards.
C10_Witness ==
    /\ n_calls = 2
    /\ rewards_out.called
    /\ ~ranking_out.called
    /\ IsScenario

\* C11 as stated: with an empty roster the reward mapping and the ranking
\* are both empty and nothing raises, for every metrics store.
C11_EmptyRosterAllEmpty ==
    agent_profiles = {} =>
        /\ raised = "none"
        /\ rewards_out.called => DOMAIN rewards_out.val = {}
        /\ ranking_out.called => ranking_out.val = <<>>

\* C11 amended: with an empty roster the reward mapping is empty and nothing
\* raises; the ranking lists the keys of agent_kpis, so it is empty exactly
\* when agent_kpis has no entry.
C11_EmptyRosterRankingOverKpis ==
    agent_profiles = {} =>
        /\ raised = "none"
        /\ n_calls > 0 => (rewards_out.called \/ ranking_out.called)
        /\ rewards_out.called => DOMAIN rewards_out.val = {}
        /\ ranking_out.called =>
              /\ RankedIds = KpiKeys(Kpis)
              /\ (ranking_out.val = <<>>) <=> (Kpis = <<>>)

\* C11 witness: both results returned for an empty roster on a store with
\* milestones of two agents and a total of zero.
C11_Witness ==
    /\ agent_profiles = {}
    /\ rewards_out.called
    /\ ranking_out.called
    /\ metrics.agent_kpis = Some(ScenarioKpis)
    /\ metrics.total_milestones = Some(0)
    /\ Len(ranking_out.val) = 2

\* C15 as stated: with total_milestones < 0 the reward computation fails
\* with an error and returns neither a reward mapping nor a ratio.
C15_NegativeTotalFailsFast ==
    (metrics.total_milestones.has /\ metrics.total_milestones.v < 0) =>
        /\ ~rewards_out.called
        /\ ~ratio_out.called

\* C16: calculate_agent_rewards and sorted_agent_contribution complete and
\* return a value on every store and roster; none of them raises.
C16_NeverRaises ==
    [][ /\ calculate_agent_rewards => (raised' = "none" /\ rewards_out'.called)
        /\ sorted_agent_contribution => (raised' = "none" /\ ranking_out'.called)
      ]_vars

\* C16 witness: both calls returned on a store without agent_kpis, with a
\* total of zero, a sentinel score and an empty score list.
C16_Witness ==
    /\ n_calls = 2
    /\ rewards_out.called
    /\ ranking_out.called
    /\ raised = "none"
    /\ agent_profiles = {"A", "B"}
    /\ metrics.agent_kpis = NoSeq
    /\ metrics.total_milestones = Some(0)
    /\ Planning = <<-1>>
    /\ Communication = <<>>

(***************************************************************************)
(* The feedback package across cycles.                                     *)
(***************************************************************************)
\* The packages handed out so far, None results left out.
PackageIndexes == {i \in 1..Len(packages) : ~packages[i].is_none}

\* C12 as stated: a package handed out keeps the agent_rewards,
\* individual_feedbacks and reward_weights it had when it was returned,
\* whatever is called on the provider afterwards, and no two packages share
\* one of these structures.
C12_PackageNeverModified ==
    \A i \in PackageIndexes :
        /\ Deref(packages[i].agent_rewards) = packages[i].at_return.agent_rewards
        /\ Deref(packages[i].individual_feedbacks) =
               packages[i].at_return.individual_feedbacks
        /\ Deref(packages[i].reward_weights) = packages[i].at_return.reward_weights
        /\ \A j \in PackageIndexes \ {i} :
              /\ packages[j].agent_rewards # packages[i].agent_rewards
              /\ packages[j].individual_feedbacks # packages[i].individual_feedbacks

\* The ratio a ranking reports for an agent, 0 for an agent it does not list.
RatioIn(ranking, agent_id) ==
    IF \E i \in 1..Len(ranking) : ranking[i][1] = agent_id
    THEN ranking[CHOOSE i \in 1..Len(ranking) : ranking[i][1] = agent_id][2]
    ELSE Float(0)

\* C13 as stated: in every package, the reward of each roster agent is the
\* reward computed from the latest scores and the contribution ratios that
\* the same package reports in its metrics_summary.
C13_PackageRewardsRecomputed ==
    \A i \in PackageIndexes :
        LET summary == packages[i].metrics_summary
            at == packages[i].at_return
        IN  \A a \in at.agent_profiles :
                /\ a \in DOMAIN at.agent_rewards
                /\ IsReward(at.agent_rewards[a],
                            summary.latest_planning_score.n,
                            summary.latest_communication_score.n,
                            RatioIn(summary.sorted_agent_contribution, a))

\* C14 as stated: after every calculate_agent_rewards call the keys of
\* agent_rewards are the agents of the current roster.
C14_RewardsReplacedWholesale ==
    [][calculate_agent_rewards =>
           (raised' = "none" => DOMAIN agent_rewards' = agent_profiles')]_vars

C18_OperationsOnlyRead ==
    [][ProviderCall => UNCHANGED <<metrics, agent_profiles>>]_vars

\* C18 witness: on a store without total_milestones entry, an explanation
\* and a package were produced, and the store still has no such entry.
C18_Witness ==
    /\ n_calls = 2
    /\ ~metrics.total_milestones.has
    /\ explanation_out.called
    /\ PackageIndexes # {}

(***************************************************************************)
(* Concurrent invocations.                                                 *)
(***************************************************************************)
\* C19 as stated: whatever the interleaving, the mapping a call of
\* calculate_agent_rewards returns is the mapping the call computes when it
\* runs alone on the store it started on.
C19_ConcurrentCallsIndependent ==
    \A t \in DOMAIN threads :
        threads[t].pc = "done" =>
            threads[t].ret = RewardLoop(threads[t].snapshot, agent_profiles, EmptyDict)

(***************************************************************************)
(* generate_jsonl.py: task ids of the output file.                         *)
(***************************************************************************)
\* The non-blank lines of a sequence of input lines, in order.
NonBlank(lines) == SelectSeq(lines, LAMBDA line : line # "")

\* C20: the N-th line of the output file has task_id N; the last run
\* started at the number of lines the file had plus one, and added one line
\* per non-blank line of its range, in order, blank lines taking no id.
C20_TaskIdIsLineNumber ==
    /\ \A i \in 1..Len(output_file.lines) :
          /\ output_file.lines[i].json
          /\ output_file.lines[i].task_id = i
    /\ last_run.ran =>
          /\ last_run.start_task_id = last_run.existing_lines + 1
          /\ Len(output_file.lines) =
                 last_run.existing_lines + Len(NonBlank(last_run.target_lines))
          /\ \A k \in 1..Len(NonBlank(last_run.target_lines)) :
                output_file.lines[last_run.existing_lines + k] =
                    [json |-> TRUE, task_id |-> last_run.existing_lines + k,
                     task |-> NonBlank(last_run.target_lines)[k]]

\* C20 witness: the second run appended to a file of two lines a range
\* that starts with a blank line; its one text got task id 3.
C20_Witness ==
    /\ n_runs = 2
    /\ last_run.existing_lines = 2
    /\ last_run.target_lines = <<"", "b">>
    /\ Len(output_file.lines) = 3
    /\ output_file.lines[3].task_id = 3


(***************************************************************************)
(* The treasure hunt: an engine driven through its public operations, and  *)
(* an engine whose fields a test sets directly.                            *)
(***************************************************************************)
\* The provider, the generator, the prompts and the completion service are
\* idle while the game is played.
OnlyTheGame ==
    /\ metrics \in [agent_kpis : {NoSeq}, total_milestones : {NoInt},
                    planning_score : {NoSeq}, communication_score : {NoSeq}]
    /\ agent_profiles = {}
    /\ FreshProvider
    /\ is_feedback = TRUE
    /\ NoThreads
    /\ NoJsonlRun
    /\ NoPromptBuilt
    /\ NoCompletion

\* The players a caller may add: one per ability, and a second Charlie.
PlayerPool ==
    {[name |-> "Alice", ability |-> "Strength"],
     [name |-> "Bob", ability |-> "Agility"],
     [name |-> "Charlie", ability |-> "Intelligence"],
     [name |-> "Charlie", ability |-> "Stealth"],
     [name |-> "Dana", ability |-> "Stealth"]}

\* Destinations a caller may name: every environment with a way in, and
\* one that does not exist.
Destinations == {"Forest", "Cave", "Ancient Ruins", "Atlantis"}

\* Answers to the question whether to leave unsolved puzzles behind.
Confirmations == {"Y", "n"}

\* Attempts at puzzles: each right answer, a title in capitals, a wrong
\* answer.
Attempts ==
    {<<"Tree Bridge", "Weave the vines together">>,
     <<"TREE BRIDGE", "Weave the vines together">>,
     <<"Tree Bridge", "Wrong answer">>,
     <<"Crystal Pattern", "Red-Green-Blue-Red">>,
     <<"Trap Door", "Step quietly">>}

\* A fresh GameEngine after create_environments, for teams of two or four.
InitGame ==
    /\ OnlyTheGame
    /\ game \in {NewGame(2), NewGame(4)}
    /\ game_ret = GameReturned("", FALSE)
    /\ route = 0

NextGame ==
    \/ \E p \in PlayerPool : add_player(p.name, p.ability)
    \/ start_game
    \/ \E target_env \in Destinations, confirm \in Confirmations :
            move_to_environment(target_env, confirm)
    \/ \E a \in Attempts : solve_puzzle(a[1], a[2])
    \/ check_victory

SpecGame == InitGame /\ [][NextGame]_vars

\* Teams run_tests assigns to current_team: Alice and Bob, or nobody.
AssignedTeams ==
    {<<>>,
     <<[name |-> "Alice", ability |-> "Strength"],
       [name |-> "Bob", ability |-> "Agility"]>>}

\* The players run_tests adds by add_player: Charlie, twice.
AddedPlayers == {p \in PlayerPool : p.name = "Charlie"}

\* The puzzles run_tests solves or marks as solved.
MarkedSolved == {"Tree Bridge", "Trap Door"}

\* An engine as run_tests has it: created for four players, then
\* current_team, current_environment and is_solved assigned directly, the
\* game started or not, over or not.
InitGameSetUp ==
    /\ OnlyTheGame
    /\ \E team \in AssignedTeams, env \in Environments, started, over \in BOOLEAN,
          solved \in SUBSET MarkedSolved :
            game = [NewGame(4) EXCEPT !.current_team = team,
                                      !.current_environment = env,
                                      !.game_started = started,
                                      !.game_over = over,
                                      !.solved = solved]
    /\ game_ret = GameReturned("", FALSE)
    /\ route = 0

NextGameSetUp ==
    \/ \E p \in AddedPlayers : add_player(p.name, p.ability)
    \/ start_game
    \/ \E target_env \in Destinations, confirm \in Confirmations :
            move_to_environment(target_env, confirm)
    \/ \E a \in Attempts : solve_puzzle(a[1], a[2])
    \/ check_victory

SpecGameSetUp == InitGameSetUp /\ [][NextGameSetUp]_vars

\* C21: the calls of the route, made in order on a fresh engine by a team
\* that has all four abilities, end with check_victory returning True and
\* game_over set.
C21_RouteEndsInVictory ==
    (route = Len(Route) /\ game_ret.op = "check_victory")
        => (game_ret.val /\ game.game_over)

\* Through these public operations a fresh engine never leaves Start and
\* its game is never over.
NeverLeavesStart ==
    game.current_environment = "Start" /\ ~game.game_over

\* The team never exceeds max_players_per_team and holds no name twice.
TeamWithinRules ==
    /\ Len(game.current_team) <= game.max_players_per_team
    /\ \A i, j \in 1..Len(game.current_team) :
          game.current_team[i].name = game.current_team[j].name => i = j

\* An add_player call that would exceed the team size or repeat a name
\* returns False and leaves the team unchanged; start_game on an empty team
\* returns False and leaves game_started False.
RejectedCallsChangeNothing ==
    /\ \A p \in PlayerPool :
            (/\ add_player(p.name, p.ability)
             /\ \/ Len(game.current_team) >= game.max_players_per_team
                \/ \E i \in 1..Len(game.current_team) :
                       game.current_team[i].name = p.name)
            => (game_ret' = GameReturned("add_player", FALSE)
                /\ game'.current_team = game.current_team)
    /\ (start_game /\ game.current_team = <<>>)
            => (game_ret' = GameReturned("start_game", FALSE)
                /\ ~game'.game_started)

\* C22: after any calls the team holds at most max_players_per_team players
\* and no name twice; an add_player call that would break either rule
\* returns False and leaves the team unchanged, and start_game returns False
\* and leaves game_started False while the team is empty.
C22_TeamRules == []TeamWithinRules /\ [][RejectedCallsChangeNothing]_vars

\* A full team that holds a Charlie has just refused another player.
C22_Witness ==
    /\ Len(game.current_team) = game.max_players_per_team
    /\ game_ret = GameReturned("add_player", FALSE)
    /\ \E i \in 1..Len(game.current_team) : game.current_team[i].name = "Charlie"

\* C23: in Forest with Tree Bridge solved, move_to_environment("Cave")
\* returns True and current_environment becomes Cave.
C23_ForestToCave ==
    [][\A confirm \in Confirmations :
        (/\ move_to_environment("Cave", confirm)
         /\ game.current_environment = "Forest"
         /\ "Tree Bridge" \in game.solved)
        => (game_ret' = GameReturned("move_to_environment", TRUE)
            /\ game'.current_environment = "Cave")]_vars


\* The milestone count of an agent: its agent_kpis entry, 0 without one.
Milestones(agent_id) ==
    IF agent_id \in KpiKeys(Kpis) THEN Kpis[PosInKpis(agent_id)].n ELSE 0

\* C24: within one cycle, a roster agent with at least the milestones of
\* another has at least its reward, roster agents of equal contribution
\* ratio have equal rewards, and of two rewarded agents of the ranking the
\* one placed earlier never has the lower reward.
C24_RewardsFollowContribution ==
    rewards_out.called =>
        /\ \A a, b \in agent_profiles :
              /\ Milestones(a) >= Milestones(b)
                    => RLe(rewards_out.val[b], rewards_out.val[a])
              /\ RosterContribution(metrics, a) = RosterContribution(metrics, b)
                    => rewards_out.val[a] = rewards_out.val[b]
        /\ ranking_out.called =>
              \A i, j \in 1..Len(ranking_out.val) :
                  (/\ i < j
                   /\ ranking_out.val[i][1] \in agent_profiles
                   /\ ranking_out.val[j][1] \in agent_profiles)
                  => RLe(rewards_out.val[ranking_out.val[j][1]],
                         rewards_out.val[ranking_out.val[i][1]])

\* C24 witness: rewards and ranking of a roster of two, A with 3 and B with
\* 1 of 4 milestones, B listed first in agent_kpis and A ranked first with
\* the higher reward.
C24_Witness ==
    /\ rewards_out.called
    /\ ranking_out.called
    /\ agent_profiles = {"A", "B"}
    /\ Kpis = <<[id |-> "B", n |-> 1], [id |-> "A", n |-> 3]>>
    /\ metrics.total_milestones = Some(4)
    /\ ranking_out.val[1][1] = "A"
    /\ RLt(rewards_out.val["B"], rewards_out.val["A"])


\* C25: in every package, the ratio of each ranked agent is its milestone
\* count divided by the total_milestones the package reports when that
\* total is positive, and 0.0 when the reported total is 0, also when the
\* store has no total_milestones entry and 0 is reported for it.
C25_RatioOverReportedTotal ==
    \A i \in PackageIndexes :
        LET summary == packages[i].metrics_summary
            agent_kpis == MetricsGet(packages[i].at_return.metrics, "agent_kpis", <<>>)
            ranking == summary.sorted_agent_contribution
        IN  \A k \in 1..Len(ranking) :
                IF summary.total_milestones > 0
                THEN IsFraction(ranking[k][2], KpiGet(agent_kpis, ranking[k][1], 0),
                                summary.total_milestones)
                ELSE summary.total_milestones = 0 => ranking[k][2] = Float(0)


\* C26: generate_individual_feedback raises nothing when model calls fail:
\* the agents whose call fails get the failure text, the other rewarded
\* agents get the model's reply to their prompt, and on return
\* individual_feedbacks has an entry for every agent of agent_rewards.
C26_FailuresStayInside ==
    [][\A failing \in SUBSET Agents :
        generate_individual_feedback(failing) =>
            /\ raised' = "none"
            /\ DOMAIN agent_rewards' \subseteq DOMAIN individual_feedbacks'
            /\ \A a \in DOMAIN agent_rewards' :
                  IF a \in failing
                  THEN individual_feedbacks'[a] =
                           FailureText("feedbackGenerationFailed")
                  ELSE /\ ~individual_feedbacks'[a].failed
                       /\ individual_feedbacks'[a].prompt.agent_id = a]_vars

\* C26 witness: the call failed for A and B still got its feedback.
C26_Witness ==
    /\ DOMAIN agent_rewards = {"A", "B"}
    /\ DOMAIN individual_feedbacks = {"A", "B"}
    /\ individual_feedbacks["A"].failed
    /\ ~individual_feedbacks["B"].failed
    /\ model_calls = 2

\* C27: on a provider created with is_feedback False,
\* get_full_feedback_package returns None, calls the model not once, and
\* leaves agent_rewards, individual_feedbacks and team_feedback as they
\* were.
C27_DisabledDoesNothing ==
    [][\A down \in BOOLEAN :
        (/\ get_full_feedback_package(ModelDown(down), down, ModelDown(down))
         /\ ~is_feedback)
        => /\ packages' = Append(packages, NonePackage)
           /\ model_calls' = 0
           /\ raised' = "none"
           /\ UNCHANGED <<agent_rewards, individual_feedbacks, team_feedback>>]_vars

\* C27 witness: a disabled provider that holds rewards and individual
\* feedbacks from an earlier call has returned None.
C27_Witness ==
    /\ ~is_feedback
    /\ packages # <<>>
    /\ packages[Len(packages)].is_none
    /\ model_calls = 0
    /\ DOMAIN agent_rewards # {}
    /\ DOMAIN individual_feedbacks # {}


(***************************************************************************)
(* The prompts: every package argument, for both functions and agents.     *)
(***************************************************************************)
\* Rewards a package may hold: 0.645, 2/3 and 1.0.
PromptRewards == {Q(129, 200), Q(2, 3), Float(1)}

\* The dicts a package may hold under agent_rewards.
RewardDicts ==
    UNION {[ids -> PromptRewards] : ids \in {{}, {"A"}, {"A", "B"}}}

\* The dicts a package may hold under individual_feedbacks.
TextDicts ==
    {NoTexts, [x \in {"A"} |-> "feedback for A"],
     [x \in {"A", "B"} |-> IF x = "A" THEN "feedback for A" ELSE "feedback for B"]}

\* The arguments passed as full_feedback: None, and dicts with or without
\* each of the three keys ({} has none).
FeedbackArgs ==
    {NoneFeedback} \cup
    {[is_none |-> FALSE,
      has_rewards |-> hr, agent_rewards |-> r,
      has_individual |-> hi, individual_feedbacks |-> t,
      has_team |-> ht, team_feedback |-> IF ht THEN "team feedback" ELSE ""] :
        hr \in BOOLEAN, r \in RewardDicts, hi \in BOOLEAN, t \in TextDicts,
        ht \in BOOLEAN}

\* A key that is absent holds nothing.
WellFormedArg(f) ==
    /\ ~f.has_rewards => f.agent_rewards = EmptyDict
    /\ ~f.has_individual => f.individual_feedbacks = NoTexts

InitPrompt ==
    /\ metrics \in [agent_kpis : {NoSeq}, total_milestones : {NoInt},
                    planning_score : {NoSeq}, communication_score : {NoSeq}]
    /\ agent_profiles = {}
    /\ FreshProvider
    /\ is_feedback = TRUE
    /\ NoThreads
    /\ NoJsonlRun
    /\ NoGame
    /\ NoPromptBuilt
    /\ NoCompletion

NextPrompt ==
    \E agent_id \in Agents, full_feedback \in {f \in FeedbackArgs : WellFormedArg(f)} :
        \/ generate_agent_task_planning_prompt(agent_id, full_feedback)
        \/ generate_agent_task_execution_prompt(agent_id, full_feedback)

SpecPrompt == InitPrompt /\ [][NextPrompt]_vars

\* The argument has a reward for the agent of the prompt.
HasRewardFor(f, agent_id) ==
    ~f.is_none /\ f.has_rewards /\ agent_id \in DOMAIN f.agent_rewards

\* shown ten-thousandths are the value r to four decimals.
ShownAs(shown, r) == 2 * Abs(shown * r.d - 10000 * r.n) <= r.d

\* C28 as stated: the prompt shows the agent's reward of the package when
\* there is one; when full_feedback is None, empty or without a reward for
\* the agent it shows 0.0 and both feedback texts are default texts.
C28_RewardOrDefaults ==
    prompt_out.called =>
        IF HasRewardFor(prompt_out.full_feedback, prompt_out.agent_id)
        THEN ShownAs(prompt_out.agent_reward,
                     prompt_out.full_feedback.agent_rewards[prompt_out.agent_id])
        ELSE /\ prompt_out.agent_reward = 0
             /\ prompt_out.individual_feedback.default
             /\ prompt_out.team_feedback.default

\* C28 amended: the prompt shows the agent's reward of the package to four
\* decimals when there is one and 0.0000 otherwise; for None or {} both
\* texts are the defaults for a missing history; for any other package the
\* individual text is the package's entry for the agent, or else the default
\* for missing data, and the team text is the package's team_feedback, or
\* else the default for missing data, whether or not the package has a
\* reward for the agent.
C28_PromptEmbedsPackage ==
    prompt_out.called =>
        LET f == prompt_out.full_feedback
            fn == prompt_out.fn
            a == prompt_out.agent_id
            empty == f.is_none \/ ~(f.has_rewards \/ f.has_individual \/ f.has_team)
        IN  /\ IF HasRewardFor(f, a)
               THEN ShownAs(prompt_out.agent_reward, f.agent_rewards[a])
               ELSE prompt_out.agent_reward = 0
            /\ empty =>
                  /\ prompt_out.individual_feedback =
                         [default |-> TRUE, fn |-> fn, which |-> "individual",
                          text |-> "no history"]
                  /\ prompt_out.team_feedback =
                         [default |-> TRUE, fn |-> fn, which |-> "team",
                          text |-> "no history"]
            /\ ~empty =>
                  /\ prompt_out.individual_feedback =
                         IF f.has_individual /\ a \in DOMAIN f.individual_feedbacks
                         THEN [default |-> FALSE, fn |-> "", which |-> "",
                               text |-> f.individual_feedbacks[a]]
                         ELSE [default |-> TRUE, fn |-> fn, which |-> "individual",
                               text |-> "no valid data"]
                  /\ prompt_out.team_feedback =
                         IF f.has_team
                         THEN [default |-> FALSE, fn |-> "", which |-> "",
                               text |-> f.team_feedback]
                         ELSE [default |-> TRUE, fn |-> fn, which |-> "team",
                               text |-> "no valid data"]

\* C28 witness: an execution prompt for B from a package that rewards only A
\* with 2/3 and has a team feedback: B is shown 0.0000 and the
\* package's team text.
C28_Witness ==
    /\ prompt_out.called
    /\ prompt_out.fn = "execution"
    /\ prompt_out.agent_id = "B"
    /\ prompt_out.full_feedback.has_rewards
    /\ DOMAIN prompt_out.full_feedback.agent_rewards = {"A"}
    /\ prompt_out.full_feedback.agent_rewards["A"] = Q(2, 3)
    /\ prompt_out.full_feedback.has_team
    /\ prompt_out.agent_reward = 0
    /\ ~prompt_out.team_feedback.default


(***************************************************************************)
(* The completion service: calls of model_prompting by any caller.         *)
(***************************************************************************)
\* Model names, one for each branch of the base_url selection.
ModelNames == {"together_ai/TA/llama", "deepseek-chat", "gpt-4o", "claude-3"}

\* Lengths of a message content: short, at the limit, one above it.
ContentLens == {10, max_length, max_length + 1}

\* max_token_num arguments: those of the feedback provider (1024 and 512)
\* and a smaller one.
TokenArgs == {256, default_max_token_num, 1024}

InitCompletion ==
    /\ metrics \in [agent_kpis : {NoSeq}, total_milestones : {NoInt},
                    planning_score : {NoSeq}, communication_score : {NoSeq}]
    /\ agent_profiles = {}
    /\ FreshProvider
    /\ is_feedback = TRUE
    /\ NoThreads
    /\ NoJsonlRun
    /\ NoGame
    /\ NoPromptBuilt
    /\ NoCompletion

NextCompletion ==
    \E llm_model \in ModelNames, content_len \in ContentLens, return_num \in {1, 2},
       given \in BOOLEAN, max_token_num \in TokenArgs, fails \in BOOLEAN :
        model_prompting(llm_model, content_len, return_num, given, max_token_num, fails)

SpecCompletion == InitCompletion /\ [][NextCompletion]_vars

\* C29: the max_tokens of the request to the completion service is the
\* max_token_num the caller gave, 512 when the caller gave none.
C29_RequestUsesCallerTokens ==
    completion.called => completion.max_tokens = completion.max_token_num

====
